---- MODULE Spec2Model ----
(***************************************************************************)
(* Voile Protocol: exit proofs, the proof generator and the proof verifier *)
(* with its used-nullifier set (src/src/proof.rs), over the exit note and  *)
(* commitment they hash (src/src/exit_note.rs, src/src/commitment.rs).     *)
(*                                                                         *)
(* Byte strings are sequences of chunks.  A chunk is a pair whose first    *)
(* component names its kind: a 32-byte array chosen by a caller ("raw"),   *)
(* an ASCII literal ("str"), a little-endian integer ("u8", "u16", "u64")  *)
(* or a Keccak-256 digest ("keccak").  A digest is identified by the byte  *)
(* string that was hashed: the hash is collision-free and no digest is the *)
(* all-zero array.                                                         *)
(***************************************************************************)
EXTENDS Integers, Sequences, FiniteSets, TLC

VARIABLES
    domain,           \* ProofVerifier.domain, per verifier instance
    used_nullifiers,  \* ProofVerifier.used_nullifiers, per verifier instance
    proof,            \* the ExitProof a caller currently holds
    source,           \* how the held proof was obtained
    lastCall,         \* the last call made and what it returned
    okNullifiers,     \* history: nullifiers of proofs verify accepted
    markedArgs,       \* history: arguments of mark_nullifier_used calls
    spent,            \* history: nullifiers marked right after an Ok verify
    pc,               \* per client: position in verify-then-mark
    held,             \* per client: the proof it submitted
    res,              \* per client: what verify returned to it
    log,              \* submissions and their outcomes, oldest first
    fn,               \* the last pure function applied to args
    args,             \* the inputs drawn for the pure functions
    out               \* what the functions applied so far returned

vars == <<domain, used_nullifiers, proof, source, lastCall, okNullifiers,
          markedArgs, spent, pc, held, res, log, fn, args, out>>

-----------------------------------------------------------------------------
(* Bounds *)

\* largest number of nullifiers one verifier is driven to hold
MaxUsed == 2
\* largest number of proofs one verifier is driven to accept
MaxOk == 2
\* number of submissions recorded in the log
MaxLog == 3

-----------------------------------------------------------------------------
(* Bytes *)

Raw(n) == <<"raw", n>>
Str(s) == <<"str", s>>
U8(n) == <<"u8", n>>
U16(n) == <<"u16", n>>
U64(n) == <<"u64", n>>

\* [0u8; 32]
ZERO32 == Raw(0)

\* Keccak256::new(); update(chunk) for each chunk; finalize()
Keccak256(chunks) == <<"keccak", chunks>>

\* bytes of one 32-byte array
WordBytes == 32
\* size of a serialized proof
ProofSize == 160

\* the all-zero array and one other array a caller may choose
RawValues == {Raw(0), Raw(1)}

-----------------------------------------------------------------------------
(* Results *)

Ok == [kind |-> "Ok", msg |-> ""]
Err(k, m) == [kind |-> k, msg |-> m]
ProofVerificationFailed(m) == Err("ProofVerificationFailed", m)
NoResult == [kind |-> "None", msg |-> ""]

-----------------------------------------------------------------------------
(* Commitment (commitment.rs) and ExitNote (exit_note.rs) *)

\* a commitment that hashes the value alone
CommitmentNewUnblinded(value, blinding_factor) == Keccak256(value)

\* Commitment::new(value, blinding_factor): the 32-byte hash
CommitmentNew(value, blinding_factor) == Keccak256(value \o <<blinding_factor>>)

\* to_bytes that writes max_slippage_bps before min_rate_bps
TermsToBytesCustomSwapped(terms) ==
    CASE terms[1] = "Immediate" -> <<U8(0)>>
      [] terms[1] = "Standard"  -> <<U8(1)>>
      [] terms[1] = "Delayed"   -> <<U8(2), U64(terms[2])>>
      [] terms[1] = "Custom"    -> <<U8(3), U16(terms[3]), U16(terms[2])>>

\* Commitment::verify(value, blinding_factor) on the commitment with this hash
CommitmentVerify(hash, value, blinding_factor) ==
    hash = CommitmentNew(value, blinding_factor)

\* ExitTerms::to_bytes
TermsToBytes(terms) ==
    CASE terms[1] = "Immediate" -> <<U8(0)>>
      [] terms[1] = "Standard"  -> <<U8(1)>>
      [] terms[1] = "Delayed"   -> <<U8(2), U64(terms[2])>>
      [] terms[1] = "Custom"    -> <<U8(3), U16(terms[2]), U16(terms[3])>>

\* number of bytes of a chunk
ChunkLen(c) ==
    CASE c[1] = "u8"  -> 1
      [] c[1] = "u16" -> 2
      [] c[1] = "u64" -> 8
      [] OTHER        -> WordBytes

RECURSIVE BytesLen(_)
BytesLen(bytes) ==
    IF bytes = <<>> THEN 0 ELSE ChunkLen(Head(bytes)) + BytesLen(Tail(bytes))

\* ExitNote::to_bytes
NoteToBytes(note) ==
    LET terms_bytes == TermsToBytes(note.terms)
    IN  <<note.note_id, U64(note.amount), note.owner, U64(note.created_at),
          note.blinding_factor, U16(BytesLen(terms_bytes))>> \o terms_bytes

\* ExitNote::commitment
NoteCommitment(note) == CommitmentNew(NoteToBytes(note), note.blinding_factor)

-----------------------------------------------------------------------------
(* ExitProof (proof.rs) *)

ProofFields == {"commitment", "announcement", "response", "verification_tag", "nullifier"}

\* ExitProof::to_bytes
ProofToBytes(p) ==
    <<p.commitment, p.announcement, p.response, p.verification_tag, p.nullifier>>

\* from_bytes that reads the verification tag before the response
ProofFromBytesTagBeforeResponse(bytes) ==
    IF BytesLen(bytes) # ProofSize
    THEN [result |-> ProofVerificationFailed("Invalid proof size: expected 160, got "
                                             \o ToString(BytesLen(bytes))),
          value  |-> [commitment |-> ZERO32, announcement |-> ZERO32,
                      response |-> ZERO32, verification_tag |-> ZERO32,
                      nullifier |-> ZERO32]]
    ELSE [result |-> Ok,
          value  |-> [commitment |-> bytes[1], announcement |-> bytes[2],
                      response |-> bytes[4], verification_tag |-> bytes[3],
                      nullifier |-> bytes[5]]]

\* ExitProof::from_bytes
ProofFromBytes(bytes) ==
    IF BytesLen(bytes) # ProofSize
    THEN [result |-> ProofVerificationFailed("Invalid proof size: expected 160, got "
                                             \o ToString(BytesLen(bytes))),
          value  |-> [commitment |-> ZERO32, announcement |-> ZERO32,
                      response |-> ZERO32, verification_tag |-> ZERO32,
                      nullifier |-> ZERO32]]
    ELSE [result |-> Ok,
          value  |-> [commitment |-> bytes[1], announcement |-> bytes[2],
                      response |-> bytes[3], verification_tag |-> bytes[4],
                      nullifier |-> bytes[5]]]

-----------------------------------------------------------------------------
(* ProofGenerator (proof.rs) *)

\* domain hash that leaves the domain tag out
DomainHashWithoutTag(tag) == Keccak256(<<Str("voile_proof_domain")>>)

\* the domain hash ProofGenerator::new and ProofVerifier::new both compute
DomainHash(tag) == Keccak256(<<Str("voile_proof_domain"), Str(tag)>>)

\* ProofGenerator::new: the generator's domain
GeneratorNew(tag) == DomainHash(tag)

\* compute_nullifier that leaves the owner secret out
GenComputeNullifierWithoutSecret(dom, note_id, owner_secret) ==
    Keccak256(<<Str("voile_nullifier"), dom, note_id>>)

\* ProofGenerator::compute_nullifier
GenComputeNullifier(dom, note_id, owner_secret) ==
    Keccak256(<<Str("voile_nullifier"), dom, note_id, owner_secret>>)

\* ProofGenerator::compute_announcement
GenComputeAnnouncement(dom, random_k) ==
    Keccak256(<<Str("voile_announcement"), dom, random_k>>)

\* compute_challenge hashing the announcement before the nullifier
GenComputeChallengeSwapped(dom, commitment, nullifier, announcement) ==
    Keccak256(<<Str("voile_challenge"), dom, commitment, announcement, nullifier>>)

\* ProofGenerator::compute_challenge
GenComputeChallenge(dom, commitment, nullifier, announcement) ==
    Keccak256(<<Str("voile_challenge"), dom, commitment, nullifier, announcement>>)

\* ProofGenerator::compute_response
GenComputeResponse(dom, random_k, challenge, owner_secret) ==
    Keccak256(<<Str("voile_response"), dom, random_k, challenge, owner_secret>>)

\* ProofGenerator::compute_verification_tag
GenComputeVerificationTag(dom, response, challenge, announcement, commitment, nullifier) ==
    Keccak256(<<Str("voile_verification_tag"), dom, response, challenge,
                announcement, commitment, nullifier>>)

\* ProofGenerator::generate, with the nonce random_k the random source drew
GenerateProof(dom, note, owner_secret, random_k) ==
    LET commitment   == NoteCommitment(note)
        nullifier    == GenComputeNullifier(dom, note.note_id, owner_secret)
        announcement == GenComputeAnnouncement(dom, random_k)
        challenge    == GenComputeChallenge(dom, commitment, nullifier, announcement)
        response     == GenComputeResponse(dom, random_k, challenge, owner_secret)
        verification_tag ==
            GenComputeVerificationTag(dom, response, challenge, announcement,
                                      commitment, nullifier)
    IN  [commitment |-> commitment, announcement |-> announcement,
         response |-> response, verification_tag |-> verification_tag,
         nullifier |-> nullifier]

-----------------------------------------------------------------------------
(* ProofVerifier (proof.rs) *)

\* ProofVerifier::new: the verifier's domain; the used set starts empty
VerifierNew(tag) == DomainHash(tag)

\* compute_challenge hashing the announcement before the nullifier
VerComputeChallengeSwapped(dom, commitment, nullifier, announcement) ==
    Keccak256(<<Str("voile_challenge"), dom, commitment, announcement, nullifier>>)

\* ProofVerifier::compute_challenge
VerComputeChallenge(dom, commitment, nullifier, announcement) ==
    Keccak256(<<Str("voile_challenge"), dom, commitment, nullifier, announcement>>)

\* ProofVerifier::compute_verification_tag
VerComputeVerificationTag(dom, response, challenge, announcement, commitment, nullifier) ==
    Keccak256(<<Str("voile_verification_tag"), dom, response, challenge,
                announcement, commitment, nullifier>>)

\* verify_basic_structure that checks the response only
VerifyBasicStructureResponseOnly(p) ==
    IF p.response = ZERO32
    THEN ProofVerificationFailed("Invalid response: zero value")
    ELSE Ok

\* ProofVerifier::verify_basic_structure
VerifyBasicStructure(p) ==
    IF p.response = ZERO32
    THEN ProofVerificationFailed("Invalid response: zero value")
    ELSE IF p.announcement = ZERO32
    THEN ProofVerificationFailed("Invalid announcement: zero value")
    ELSE IF p.nullifier = ZERO32
    THEN ProofVerificationFailed("Invalid nullifier: zero value")
    ELSE IF p.verification_tag = ZERO32
    THEN ProofVerificationFailed("Invalid verification tag: zero value")
    ELSE Ok

\* verify_proof_cryptography that recomputes the tag and compares nothing
VerifyProofCryptographyNoCompare(dom, p) == Ok

\* ProofVerifier::verify_proof_cryptography
VerifyProofCryptography(dom, p) ==
    LET challenge    == VerComputeChallenge(dom, p.commitment, p.nullifier, p.announcement)
        expected_tag == VerComputeVerificationTag(dom, p.response, challenge,
                            p.announcement, p.commitment, p.nullifier)
    IN  IF p.verification_tag # expected_tag
        THEN ProofVerificationFailed("Verification tag mismatch")
        ELSE Ok

\* verify without the used-nullifier check
VerifyIgnoringUsed(dom, used, p) ==
    IF VerifyBasicStructure(p) # Ok
    THEN VerifyBasicStructure(p)
    ELSE VerifyProofCryptography(dom, p)

\* verify that looks at the used set only after the structural checks
VerifyStructureFirst(dom, used, p) ==
    IF VerifyBasicStructure(p) # Ok
    THEN VerifyBasicStructure(p)
    ELSE IF p.nullifier \in used
    THEN ProofVerificationFailed("Nullifier already used")
    ELSE VerifyProofCryptography(dom, p)

\* ProofVerifier::verify: what it returns
Verify(dom, used, p) ==
    IF p.nullifier \in used
    THEN ProofVerificationFailed("Nullifier already used")
    ELSE IF VerifyBasicStructure(p) # Ok
    THEN VerifyBasicStructure(p)
    ELSE IF VerifyProofCryptography(dom, p) # Ok
    THEN VerifyProofCryptography(dom, p)
    ELSE Ok

\* verify that records the nullifier of a proof it accepts
VerifyUsedAfterInserting(dom, used, p) ==
    IF Verify(dom, used, p) = Ok THEN used \cup {p.nullifier} ELSE used

\* ProofVerifier::verify takes &self: the used set it leaves behind
VerifyUsedAfter(dom, used, p) == used

\* mark_nullifier_used that overwrites the set instead of inserting into it
MarkNullifierUsedOverwriting(used, nullifier) == {nullifier}

\* mark_nullifier_used that inserts nothing
MarkNullifierUsedDropping(used, nullifier) == used

\* ProofVerifier::mark_nullifier_used: the used set it leaves behind
MarkNullifierUsed(used, nullifier) == used \cup {nullifier}

\* ProofVerifier::is_nullifier_used
IsNullifierUsed(used, nullifier) == nullifier \in used

-----------------------------------------------------------------------------
(* Inputs *)

Verifiers == {"A", "B"}
Clients == {"c1", "c2"}
DomainTags == {"chain_1", "chain_2"}
Secrets == {Raw(1), Raw(2)}
Nonces == {Raw(1), Raw(2)}

\* an ExitNote as ExitNote::new(1000, [42; 32], Standard) builds it, with the
\* note_id and blinding_factor the random source drew and the seconds since
\* the epoch the clock read
TestNote(id, blinding, now) ==
    [note_id |-> Raw(id), amount |-> 1000, owner |-> Raw(42),
     terms |-> <<"Standard">>, created_at |-> now, blinding_factor |-> Raw(blinding)]

\* create_test_note() called when the clock read 1700000000
FirstNote == TestNote(1, 3, 1700000000)

Notes == {FirstNote, TestNote(2, 4, 1700000000)}

\* the all-zero proof, held before any proof was obtained
NoProof ==
    [commitment |-> ZERO32, announcement |-> ZERO32, response |-> ZERO32,
     verification_tag |-> ZERO32, nullifier |-> ZERO32]

NoSource == [kind |-> "none", tag |-> "", field |-> "", roundtrip |-> FALSE, orig |-> NoProof]

NoCall == [op |-> "none", v |-> "", result |-> NoResult, answer |-> FALSE]

\* every proof generate returns on the inputs above
GeneratedProofs ==
    {GenerateProof(GeneratorNew(t), n, s, k) :
        t \in DomainTags, n \in Notes, s \in Secrets, k \in Nonces}

\* the verification tag anyone can compute from the four other fields and the
\* domain tag: challenge and tag as the module documentation gives them
PublicTag(tag, c, a, s, n) ==
    LET dom       == DomainHash(tag)
        challenge == Keccak256(<<Str("voile_challenge"), dom, c, n, a>>)
    IN  Keccak256(<<Str("voile_verification_tag"), dom, s, challenge, a, c, n>>)

\* position of a field in the serialized proof
FieldIndex(f) ==
    CASE f = "commitment"       -> 1
      [] f = "announcement"     -> 2
      [] f = "response"         -> 3
      [] f = "verification_tag" -> 4
      [] f = "nullifier"        -> 5

-----------------------------------------------------------------------------
(* State *)

\* ProofVerifier::new(tags[v]) for each verifier v; no proof held, no call made
VerifierInit(tags) ==
    /\ domain = [v \in Verifiers |-> VerifierNew(tags[v])]
    /\ used_nullifiers = [v \in Verifiers |-> {}]
    /\ proof = NoProof
    /\ source = NoSource
    /\ lastCall = NoCall
    /\ okNullifiers = [v \in Verifiers |-> {}]
    /\ markedArgs = [v \in Verifiers |-> {}]
    /\ spent = [v \in Verifiers |-> {}]
    /\ pc = [c \in Clients |-> "idle"]
    /\ held = [c \in Clients |-> NoProof]
    /\ res = [c \in Clients |-> NoResult]
    /\ log = <<>>

\* the state after construction of the verifiers
InitWith(tags) ==
    /\ VerifierInit(tags)
    /\ fn = ""
    /\ args = <<>>
    /\ out = <<>>

\* the domain tag each verifier is constructed with: A serves chain_1, B chain_2
VerifierTag(v) == IF v = "A" THEN "chain_1" ELSE "chain_2"

Init == InitWith([v \in Verifiers |-> VerifierTag(v)])

verifierVars == <<domain, used_nullifiers>>
historyVars == <<okNullifiers, markedArgs, spent>>
clientVars == <<pc, held, res, log>>
callVars == <<fn, args, out>>

\* ProofGenerator::new(tag).generate(note, owner_secret), drawing random_k
Generate(tag, note, owner_secret, random_k) ==
    /\ proof' = GenerateProof(GeneratorNew(tag), note, owner_secret, random_k)
    /\ source' = [kind |-> "generate", tag |-> tag, field |-> "",
                  roundtrip |-> FALSE, orig |-> proof']
    /\ lastCall' = [op |-> "generate", v |-> "", result |-> Ok, answer |-> FALSE]
    /\ UNCHANGED <<verifierVars, historyVars, clientVars, callVars>>

\* a holder of a generated proof serializes it, overwrites the 32 bytes of one
\* field and parses the result
Tamper(f, val) ==
    /\ source.kind = "generate"
    /\ val # proof[f]
    /\ LET bytes  == [ProofToBytes(proof) EXCEPT ![FieldIndex(f)] = val]
           parsed == ProofFromBytes(bytes)
       IN  /\ parsed.result = Ok
           /\ proof' = parsed.value
    /\ source' = [source EXCEPT !.kind = "tamper", !.field = f]
    /\ lastCall' = [op |-> "from_bytes", v |-> "", result |-> Ok, answer |-> FALSE]
    /\ UNCHANGED <<verifierVars, historyVars, clientVars, callVars>>

\* a party holding no note and no secret parses 160 bytes of its choice
Forge(c, a, s, t, n) ==
    /\ LET parsed == ProofFromBytes(<<c, a, s, t, n>>)
       IN  /\ parsed.result = Ok
           /\ proof' = parsed.value
    /\ source' = [kind |-> "forge", tag |-> "", field |-> "",
                  roundtrip |-> FALSE, orig |-> proof']
    /\ lastCall' = [op |-> "from_bytes", v |-> "", result |-> Ok, answer |-> FALSE]
    /\ UNCHANGED <<verifierVars, historyVars, clientVars, callVars>>

\* ExitProof::from_bytes(proof.to_bytes())
RoundTrip ==
    /\ source.kind # "none"
    /\ ~source.roundtrip
    /\ LET parsed == ProofFromBytes(ProofToBytes(proof))
       IN  /\ lastCall' = [op |-> "from_bytes", v |-> "", result |-> parsed.result,
                           answer |-> FALSE]
           /\ proof' = IF parsed.result = Ok THEN parsed.value ELSE proof
           /\ source' = [source EXCEPT !.roundtrip = (parsed.result = Ok)]
    /\ UNCHANGED <<verifierVars, historyVars, clientVars, callVars>>

\* verifier.verify(&proof): the call itself
VerifyCall(v) ==
    /\ source.kind # "none"
    /\ lastCall' = [op |-> "verify", v |-> v,
                    result |-> Verify(domain[v], used_nullifiers[v], proof),
                    answer |-> FALSE]
    /\ used_nullifiers' = [used_nullifiers EXCEPT
                             ![v] = VerifyUsedAfter(domain[v], used_nullifiers[v], proof)]
    /\ UNCHANGED <<domain, proof, source, clientVars, callVars>>

\* mark_nullifier_used on a used set that all verifiers share
MarkCallShared(v, nullifier) ==
    /\ nullifier \in used_nullifiers[v] \/ Cardinality(used_nullifiers[v]) < MaxUsed
    /\ used_nullifiers' = [w \in Verifiers |->
                             MarkNullifierUsed(used_nullifiers[w], nullifier)]
    /\ lastCall' = [op |-> "mark_nullifier_used", v |-> v, result |-> Ok, answer |-> FALSE]
    /\ UNCHANGED <<domain, proof, source, clientVars, callVars>>

\* verifier.mark_nullifier_used(nullifier): the call itself
MarkCall(v, nullifier) ==
    /\ nullifier \in used_nullifiers[v] \/ Cardinality(used_nullifiers[v]) < MaxUsed
    /\ used_nullifiers' = [used_nullifiers EXCEPT
                             ![v] = MarkNullifierUsed(used_nullifiers[v], nullifier)]
    /\ lastCall' = [op |-> "mark_nullifier_used", v |-> v, result |-> Ok, answer |-> FALSE]
    /\ UNCHANGED <<domain, proof, source, clientVars, callVars>>

\* verifier.verify(&proof), recorded in the history
VerifyProof(v) ==
    /\ VerifyCall(v)
    /\ \/ lastCall'.result # Ok
       \/ proof.nullifier \in okNullifiers[v]
       \/ Cardinality(okNullifiers[v]) < MaxOk
    /\ okNullifiers' = [okNullifiers EXCEPT
                          ![v] = IF lastCall'.result = Ok THEN @ \cup {proof.nullifier} ELSE @]
    /\ UNCHANGED <<markedArgs, spent>>

\* verifier.mark_nullifier_used(nullifier), recorded in the history
Mark(v, nullifier) ==
    /\ MarkCall(v, nullifier)
    /\ markedArgs' = [markedArgs EXCEPT ![v] = @ \cup {nullifier}]
    /\ spent' = [spent EXCEPT
                   ![v] = IF nullifier \in okNullifiers[v] THEN @ \cup {nullifier} ELSE @]
    /\ UNCHANGED okNullifiers

\* verifier.is_nullifier_used(proof.nullifier())
IsUsed(v) ==
    /\ source.kind # "none"
    /\ lastCall' = [op |-> "is_nullifier_used", v |-> v, result |-> Ok,
                    answer |-> IsNullifierUsed(used_nullifiers[v], proof.nullifier)]
    /\ UNCHANGED <<verifierVars, proof, source, historyVars, clientVars, callVars>>

\* One verifier, callers free to generate, forge, verify and mark in any order
Next ==
    \/ \E t \in DomainTags, s \in Secrets, k \in Nonces :
          Generate(t, FirstNote, s, k)
    \/ \E d \in DomainTags, n \in RawValues \cup {proof.nullifier} :
          \E t \in {Raw(1), PublicTag(d, Raw(1), Raw(1), Raw(1), n)} :
             Forge(Raw(1), Raw(1), Raw(1), t, n)
    \/ VerifyProof("A")
    \/ \E n \in {proof.nullifier, Raw(1)} : Mark("A", n)
    \/ IsUsed("A")

Spec == Init /\ [][Next]_vars

-----------------------------------------------------------------------------
(* The verifier as a state machine: Spec *)

\* C1: once verify accepted a proof and its nullifier was marked used, every
\* later verify of a proof carrying that nullifier fails with
\* ProofVerificationFailed, whatever the proof's other fields are
DoubleSpendRejected ==
    (lastCall.op = "verify" /\ proof.nullifier \in spent[lastCall.v])
        => lastCall.result.kind = "ProofVerificationFailed"

\* a proof other than the accepted one, with the spent nullifier and a tag that
\* matches its fields, was verified and rejected
DoubleSpendWitness ==
    /\ lastCall.op = "verify"
    /\ proof.nullifier \in spent[lastCall.v]
    /\ source.kind = "forge"
    /\ VerifyBasicStructure(proof) = Ok
    /\ VerifyProofCryptography(domain[lastCall.v], proof) = Ok
    /\ lastCall.result = ProofVerificationFailed("Nullifier already used")

\* C4 as stated: every used nullifier is that of a proof verify accepted before
UsedOnlyAfterVerifyOk ==
    \A v \in Verifiers : used_nullifiers[v] \subseteq okNullifiers[v]

\* C4 as amended: every used nullifier was the argument of an earlier
\* mark_nullifier_used call on that verifier; verify adds none
UsedOnlyByMark ==
    \A v \in Verifiers : used_nullifiers[v] \subseteq markedArgs[v]

\* a nullifier was marked used although verify never accepted a proof with it,
\* after verify did accept another proof
UsedOnlyByMarkWitness ==
    \E v \in Verifiers :
        /\ \E n \in used_nullifiers[v] : n \in markedArgs[v] /\ n \notin okNullifiers[v]
        /\ okNullifiers[v] # {}

\* C5: a used nullifier stays used: no step removes an element of a used set
UsedSetOnlyGrows ==
    [][\A v \in Verifiers : used_nullifiers[v] \subseteq used_nullifiers'[v]]_vars

\* is_nullifier_used answers true for a nullifier while the set holds two:
\* the set was marked again, and verified against, after the first insertion
UsedSetOnlyGrowsWitness ==
    /\ lastCall.op = "is_nullifier_used"
    /\ lastCall.answer
    /\ Cardinality(used_nullifiers[lastCall.v]) >= 2
    /\ okNullifiers[lastCall.v] # {}

\* C6: verify changes neither the used set nor the domain, so the nullifier of
\* a proof it accepted is still unused and an immediate second verify of the
\* same proof returns Ok again
VerifyChangesNothing ==
    [][lastCall'.op = "verify" =>
          /\ UNCHANGED <<domain, used_nullifiers>>
          /\ (lastCall'.result = Ok =>
                ~IsNullifierUsed(used_nullifiers'[lastCall'.v], proof'.nullifier))
          /\ (lastCall.op = "verify" /\ lastCall.v = lastCall'.v /\ lastCall.result = Ok)
                => lastCall'.result = Ok]_vars

\* verify accepted a proof on a verifier that holds used nullifiers, and the
\* proof's nullifier is not among them
VerifyChangesNothingWitness ==
    /\ lastCall.op = "verify"
    /\ lastCall.result = Ok
    /\ used_nullifiers[lastCall.v] # {}
    /\ proof.nullifier \notin used_nullifiers[lastCall.v]
    /\ proof.nullifier \in okNullifiers[lastCall.v]

\* C12: once a proof generated for a note was accepted and its nullifier
\* marked used, every proof generated for that note under the same domain is
\* rejected, whichever owner_secret went into it
NoteReuseRejected ==
    (/\ lastCall.op = "verify"
     /\ source.kind = "generate"
     /\ source.tag = VerifierTag(lastCall.v)
     /\ \E note \in Notes, s \in Secrets :
           /\ proof.commitment = NoteCommitment(note)
           /\ GenComputeNullifier(GeneratorNew(source.tag), note.note_id, s)
                 \in spent[lastCall.v])
        => lastCall.result.kind = "ProofVerificationFailed"

-----------------------------------------------------------------------------
(* Generation, tampering, forging and verification: SpecProof *)

\* the nullifier generate computes under a domain tag for note_id 1, secret 1
FirstNullifier(tag) == GenComputeNullifier(GeneratorNew(tag), Raw(1), Raw(1))

\* as Init, after no mark_nullifier_used call or one, of FirstNullifier of the
\* verifier's own domain tag, on each verifier
InitProof ==
    /\ domain = [v \in Verifiers |-> VerifierNew(VerifierTag(v))]
    /\ \E m \in SUBSET Verifiers :
          used_nullifiers =
              [v \in Verifiers |->
                  IF v \in m
                  THEN MarkNullifierUsed({}, FirstNullifier(VerifierTag(v)))
                  ELSE {}]
    /\ markedArgs = used_nullifiers
    /\ proof = NoProof
    /\ source = NoSource
    /\ lastCall = NoCall
    /\ okNullifiers = [v \in Verifiers |-> {}]
    /\ spent = [v \in Verifiers |-> {}]
    /\ pc = [c \in Clients |-> "idle"]
    /\ held = [c \in Clients |-> NoProof]
    /\ res = [c \in Clients |-> NoResult]
    /\ log = <<>>
    /\ fn = ""
    /\ args = <<>>
    /\ out = <<>>

\* the values a tamperer writes over a field: the two raw arrays and that
\* field of any generated proof
TamperValues(f) == RawValues \cup {q[f] : q \in GeneratedProofs}

\* verifier.verify(&proof) with no history kept
VerifyOnly(v) == VerifyCall(v) /\ UNCHANGED historyVars

NextProof ==
    \/ \E t \in DomainTags, n \in Notes, s \in Secrets, k \in Nonces :
          Generate(t, n, s, k)
    \/ \E f \in ProofFields : \E val \in TamperValues(f) : Tamper(f, val)
    \/ \E d \in DomainTags, c \in {Raw(1), proof.commitment}, a \in RawValues,
          s \in RawValues, n \in RawValues \cup {proof.nullifier} :
          Forge(c, a, s, PublicTag(d, c, a, s, n), n)
    \/ RoundTrip
    \/ \E v \in Verifiers : VerifyOnly(v)

SpecProof == InitProof /\ [][NextProof]_vars

\* the held proof came out of generate, possibly through to_bytes/from_bytes
FromGenerate == source.kind = "generate"

\* C7: a proof generated under a domain tag is accepted by a verifier of the
\* same tag whose used set lacks the proof's nullifier, also after a
\* to_bytes/from_bytes round trip
Completeness ==
    (/\ lastCall.op = "verify"
     /\ FromGenerate
     /\ source.tag = VerifierTag(lastCall.v)
     /\ proof.nullifier \notin used_nullifiers[lastCall.v])
        => lastCall.result = Ok

\* a generated proof went through to_bytes/from_bytes and was then accepted by
\* a verifier that holds another nullifier
CompletenessWitness ==
    /\ lastCall.op = "verify"
    /\ FromGenerate
    /\ source.roundtrip
    /\ used_nullifiers[lastCall.v] # {}
    /\ lastCall.result = Ok

\* C8: a proof generated under one domain tag is rejected by a verifier
\* constructed with another tag and accepted by a fresh verifier of its own tag
DomainSeparation ==
    (/\ lastCall.op = "verify"
     /\ FromGenerate
     /\ source.tag # VerifierTag(lastCall.v))
        => /\ lastCall.result.kind = "ProofVerificationFailed"
           /\ Verify(VerifierNew(source.tag), {}, proof) = Ok

\* a proof of the other domain, with an unused nullifier, was rejected for its tag
DomainSeparationWitness ==
    /\ lastCall.op = "verify"
    /\ FromGenerate
    /\ source.tag # VerifierTag(lastCall.v)
    /\ proof.nullifier \notin used_nullifiers[lastCall.v]
    /\ lastCall.result = ProofVerificationFailed("Verification tag mismatch")

\* C9: changing exactly one field of a proof the verifier accepts gives a proof
\* it rejects with ProofVerificationFailed
TamperDetected ==
    (/\ lastCall.op = "verify"
     /\ source.kind = "tamper"
     /\ Verify(domain[lastCall.v], used_nullifiers[lastCall.v], source.orig) = Ok)
        => lastCall.result.kind = "ProofVerificationFailed"

\* the commitment of an acceptable proof was replaced by the commitment of
\* another generated proof, and the result was rejected for its tag
TamperDetectedWitness ==
    /\ lastCall.op = "verify"
    /\ source.kind = "tamper"
    /\ source.field = "commitment"
    /\ \E q \in GeneratedProofs : q.commitment = proof.commitment
    /\ Verify(domain[lastCall.v], used_nullifiers[lastCall.v], source.orig) = Ok
    /\ lastCall.result = ProofVerificationFailed("Verification tag mismatch")

\* C10: every proof verify accepts was produced by generate from an exit note
\* with the proof's commitment and from an owner secret
AcceptedProofWasGenerated ==
    (lastCall.op = "verify" /\ lastCall.result = Ok)
        => \E t \in DomainTags, n \in Notes, s \in Secrets, k \in Nonces :
              /\ proof = GenerateProof(GeneratorNew(t), n, s, k)
              /\ proof.commitment = NoteCommitment(n)

\* C11: a proof parsed from bytes chosen freely (any commitment, non-zero
\* announcement and response, unused non-zero nullifier) whose verification
\* tag is the public formula's value for the verifier's domain tag is accepted
ForgedProofAccepted ==
    (/\ lastCall.op = "verify"
     /\ source.kind = "forge"
     /\ proof.announcement # ZERO32
     /\ proof.response # ZERO32
     /\ proof.nullifier # ZERO32
     /\ proof.nullifier \notin used_nullifiers[lastCall.v]
     /\ proof.verification_tag =
            PublicTag(VerifierTag(lastCall.v), proof.commitment, proof.announcement,
                      proof.response, proof.nullifier))
        => lastCall.result = Ok

\* a proof whose commitment, announcement, response and nullifier are raw
\* arrays no note and no secret went into was accepted
ForgedProofAcceptedWitness ==
    /\ lastCall.op = "verify"
    /\ source.kind = "forge"
    /\ proof.commitment = Raw(1)
    /\ proof.announcement = Raw(1)
    /\ proof.response = Raw(1)
    /\ proof.nullifier = Raw(1)
    /\ used_nullifiers[lastCall.v] # {}
    /\ lastCall.result = Ok

\* the tag the verifier recomputes for p matches the tag p carries
TagMatches(v, p) ==
    p.verification_tag =
        PublicTag(VerifierTag(v), p.commitment, p.announcement, p.response, p.nullifier)

\* C14: a proof with an unused nullifier and an all-zero response,
\* announcement, nullifier or verification tag is rejected with
\* ProofVerificationFailed even when its tag is the recomputed one; an
\* all-zero commitment alone is no reason for rejection
ZeroFieldsRejected ==
    (lastCall.op = "verify" /\ proof.nullifier \notin used_nullifiers[lastCall.v])
        => /\ (\/ proof.response = ZERO32
               \/ proof.announcement = ZERO32
               \/ proof.nullifier = ZERO32
               \/ proof.verification_tag = ZERO32)
                  => /\ lastCall.result.kind = "ProofVerificationFailed"
                     /\ lastCall.result.msg # "Verification tag mismatch"
           /\ (/\ proof.commitment = ZERO32
               /\ proof.response # ZERO32
               /\ proof.announcement # ZERO32
               /\ proof.nullifier # ZERO32
               /\ TagMatches(lastCall.v, proof))
                  => lastCall.result = Ok

\* a proof with an all-zero announcement and the matching tag was rejected for
\* the zero value
ZeroFieldsRejectedWitness ==
    /\ lastCall.op = "verify"
    /\ proof.announcement = ZERO32
    /\ proof.response # ZERO32
    /\ TagMatches(lastCall.v, proof)
    /\ lastCall.result = ProofVerificationFailed("Invalid announcement: zero value")

-----------------------------------------------------------------------------
(* Two clients against verifier A: SpecRace and SpecAtomic *)

\* the proofs the clients submit: four generated for one note under chain_1
\* (two per nullifier), one forged with the nullifier of the first, and one
\* generated under chain_2
ClientProofs ==
    {GenerateProof(GeneratorNew("chain_1"), FirstNote, s, k) :
        s \in Secrets, k \in Nonces}
    \cup {[commitment |-> Raw(1), announcement |-> Raw(1), response |-> Raw(1),
           verification_tag |-> PublicTag("chain_1", Raw(1), Raw(1), Raw(1),
                                          FirstNullifier("chain_1")),
           nullifier |-> FirstNullifier("chain_1")]}
    \cup {GenerateProof(GeneratorNew("chain_2"), FirstNote, Raw(1), Raw(1))}

\* verifier A finds nothing wrong with p besides, possibly, a used nullifier
WellFormed(p) ==
    /\ VerifyBasicStructure(p) = Ok
    /\ VerifyProofCryptography(domain["A"], p) = Ok

\* client c calls verifier.verify(&p)
ClientVerify(c, p) ==
    /\ pc[c] = "idle"
    /\ held' = [held EXCEPT ![c] = p]
    /\ res' = [res EXCEPT ![c] = Verify(domain["A"], used_nullifiers["A"], p)]
    /\ used_nullifiers' = [used_nullifiers EXCEPT
                             !["A"] = VerifyUsedAfter(domain["A"], used_nullifiers["A"], p)]
    /\ pc' = [pc EXCEPT ![c] = "verified"]
    /\ UNCHANGED <<domain, proof, source, lastCall, historyVars, log, callVars>>

\* client c, whose verify returned Ok, calls mark_nullifier_used
ClientMark(c) ==
    /\ pc[c] = "verified"
    /\ res[c] = Ok
    /\ used_nullifiers' = [used_nullifiers EXCEPT
                             !["A"] = MarkNullifierUsed(used_nullifiers["A"],
                                                        held[c].nullifier)]
    /\ pc' = [pc EXCEPT ![c] = "done"]
    /\ UNCHANGED <<domain, proof, source, lastCall, historyVars, held, res, log, callVars>>

\* client c, whose verify returned an error, stops
ClientStop(c) ==
    /\ pc[c] = "verified"
    /\ res[c] # Ok
    /\ pc' = [pc EXCEPT ![c] = "done"]
    /\ UNCHANGED <<verifierVars, proof, source, lastCall, historyVars, held, res, log, callVars>>

NextRace ==
    \/ \E c \in Clients, p \in ClientProofs : ClientVerify(c, p)
    \/ \E c \in Clients : ClientMark(c)
    \/ \E c \in Clients : ClientStop(c)

SpecRace == Init /\ [][NextRace]_vars

\* C2: verify and mark as two steps: when two clients have both verified
\* well-formed proofs sharing a nullifier and neither has yet called
\* mark_nullifier_used, both verify calls returned Ok
RaceBothAccepted ==
    \A c, d \in Clients :
        (/\ c # d
         /\ pc[c] = "verified" /\ pc[d] = "verified"
         /\ WellFormed(held[c]) /\ WellFormed(held[d])
         /\ held[c].nullifier = held[d].nullifier)
            => res[c] = Ok /\ res[d] = Ok

\* both clients finished: two different proofs with one nullifier were both
\* accepted, and the nullifier was marked by both
RaceDoubleSpend ==
    /\ pc["c1"] = "done" /\ pc["c2"] = "done"
    /\ held["c1"] # held["c2"]
    /\ held["c1"].nullifier = held["c2"].nullifier
    /\ res["c1"] = Ok /\ res["c2"] = Ok
    /\ used_nullifiers["A"] = {held["c1"].nullifier}

\* client c runs verify and, on Ok, mark_nullifier_used as one step
SubmitAtomic(c, p) ==
    /\ Len(log) < MaxLog
    /\ LET r     == Verify(domain["A"], used_nullifiers["A"], p)
           after == VerifyUsedAfter(domain["A"], used_nullifiers["A"], p)
       IN  /\ used_nullifiers' = [used_nullifiers EXCEPT
                                    !["A"] = IF r = Ok
                                             THEN MarkNullifierUsed(after, p.nullifier)
                                             ELSE after]
           /\ log' = Append(log, [client |-> c, proof |-> p, result |-> r])
    /\ UNCHANGED <<domain, proof, source, lastCall, historyVars, pc, held, res, callVars>>

NextAtomic == \E c \in Clients, p \in ClientProofs : SubmitAtomic(c, p)

SpecAtomic == Init /\ [][NextAtomic]_vars

\* C3: verify-and-mark as one step: of the well-formed proofs submitted with
\* one nullifier the first is accepted and every later one fails with
\* "Nullifier already used"
AtomicFirstOnly ==
    \A j \in 1..Len(log) :
        WellFormed(log[j].proof) =>
            IF \E i \in 1..(j - 1) : /\ WellFormed(log[i].proof)
                                     /\ log[i].proof.nullifier = log[j].proof.nullifier
            THEN log[j].result = ProofVerificationFailed("Nullifier already used")
            ELSE log[j].result = Ok

\* three different well-formed proofs with one nullifier were submitted by both
\* clients: the first was accepted, the two others were not
AtomicFirstOnlyWitness ==
    /\ Len(log) = 3
    /\ \A i \in 1..3 : WellFormed(log[i].proof)
    /\ \A i, j \in 1..3 : log[i].proof.nullifier = log[j].proof.nullifier
    /\ \A i, j \in 1..3 : i # j => log[i].proof # log[j].proof
    /\ log[1].client # log[2].client
    /\ log[1].result = Ok
    /\ log[2].result # Ok /\ log[3].result # Ok

-----------------------------------------------------------------------------
(* Pure functions: the inputs are drawn in the initial state, the actions  *)
(* apply the functions to them                                             *)

\* the verifiers as constructed, with inputs drawn from a set
InitPure(inputs) ==
    /\ VerifierInit([v \in Verifiers |-> VerifierTag(v)])
    /\ fn = ""
    /\ args \in inputs
    /\ out = <<>>

\* everything but fn and out
stateVars == <<verifierVars, proof, source, lastCall, historyVars, clientVars, args>>

-----------------------------------------------------------------------------
(* ProofGenerator::generate on two inputs: SpecGen *)

GenInputs == [tag : DomainTags, note : Notes, secret : Secrets, k : Nonces]

\* two calls of generate
GenerateBoth ==
    /\ fn = ""
    /\ fn' = "generate"
    /\ out' = [i \in {1, 2} |->
                 GenerateProof(GeneratorNew(args[i].tag), args[i].note,
                               args[i].secret, args[i].k)]
    /\ UNCHANGED stateVars

NextGen == GenerateBoth

SpecGen == InitPure([{1, 2} -> GenInputs]) /\ [][NextGen]_vars

\* C13: two proofs generated for the same note, secret and domain carry the
\* same nullifier and the note's commitment, and differ in announcement,
\* response and verification tag when the nonces differ; the nullifiers differ
\* whenever the secret, the note_id or the domain differs
PublicInputsIgnoreNonce ==
    fn = "generate" =>
        LET a == args[1]
            b == args[2]
            p == out[1]
            q == out[2]
        IN  /\ p.commitment = NoteCommitment(a.note)
            /\ (a.tag = b.tag /\ a.note = b.note /\ a.secret = b.secret)
                  => /\ p.nullifier = q.nullifier
                     /\ p.commitment = q.commitment
                     /\ a.k # b.k => /\ p.announcement # q.announcement
                                     /\ p.response # q.response
                                     /\ p.verification_tag # q.verification_tag
            /\ (\/ a.secret # b.secret
                \/ a.note.note_id # b.note.note_id
                \/ a.tag # b.tag)
                  => p.nullifier # q.nullifier

\* the same note, secret and domain with two nonces: one nullifier, two
\* announcements
PublicInputsIgnoreNonceWitness ==
    /\ fn = "generate"
    /\ args[1].tag = args[2].tag
    /\ args[1].note = args[2].note
    /\ args[1].secret = args[2].secret
    /\ args[1].k # args[2].k
    /\ out[1].nullifier = out[2].nullifier
    /\ out[1].announcement # out[2].announcement

-----------------------------------------------------------------------------
(* The stream cipher (encryption.rs): SpecCipher                           *)
(*                                                                         *)
(* A byte of a plaintext or ciphertext is a known constant XOR-ed with a   *)
(* set of keystream bytes; a keystream byte is byte j of a Keccak-256      *)
(* digest and is identified by <<digest, j>>.  XOR-ing the same keystream  *)
(* byte twice cancels it.                                                  *)

\* a byte with a known value
Byte(c) == [c |-> c, ks |-> {}]

\* byte j (from 0) of a digest
DigestByte(digest, j) == [c |-> 0, ks |-> {<<digest, j>>}]

\* a ^ b on u8 values
RECURSIVE BitXor(_, _)
BitXor(a, b) ==
    IF a = 0 THEN b
    ELSE IF b = 0 THEN a
    ELSE (((a % 2) + (b % 2)) % 2) + 2 * BitXor(a \div 2, b \div 2)

\* p ^ k on bytes
ByteXor(x, y) ==
    [c |-> BitXor(x.c, y.c), ks |-> (x.ks \ y.ks) \cup (y.ks \ x.ks)]

\* a.iter().zip(b.iter()).map(|(p, k)| p ^ k).collect()
ZipXor(a, b) ==
    LET n == IF Len(a) < Len(b) THEN Len(a) ELSE Len(b)
    IN  [i \in 1..n |-> ByteXor(a[i], b[i])]

\* n.to_le_bytes() for an integer of w bytes
RECURSIVE ToLeBytes(_, _)
ToLeBytes(n, w) ==
    IF w = 0 THEN <<>> ELSE <<n % 256>> \o ToLeBytes(n \div 256, w - 1)

\* u64::from_le_bytes / u16::from_le_bytes
RECURSIVE FromLeBytes(_)
FromLeBytes(b) ==
    IF b = <<>> THEN 0 ELSE Head(b) + 256 * FromLeBytes(Tail(b))

\* bytes of the counter in a serialized EncryptedNote
CounterBytes == 8

\* EncryptionKey::derive_nonce
DeriveNonce(key, counter) ==
    Keccak256(<<Str("voile_nonce"), key, U64(counter)>>)

\* derive_keystream that hashes the requested length into every block
DeriveKeystreamForLength(key, nonce, length) ==
    [i \in 1..length |->
        DigestByte(Keccak256(<<key, nonce, U64((i - 1) \div WordBytes), U64(length)>>),
                   (i - 1) % WordBytes)]

\* derive_keystream that stops after the first block
DeriveKeystreamOneBlock(key, nonce, length) ==
    LET n == IF length < WordBytes THEN length ELSE WordBytes
    IN  [i \in 1..n |-> DigestByte(Keccak256(<<key, nonce, U64(0)>>), i - 1)]

\* EncryptionKey::derive_keystream: block number block_counter is
\* H(key || nonce || block_counter), the last block is cut at length
DeriveKeystream(key, nonce, length) ==
    [i \in 1..length |->
        DigestByte(Keccak256(<<key, nonce, U64((i - 1) \div WordBytes)>>),
                   (i - 1) % WordBytes)]

\* encrypt that stores counter 0 whatever counter it drew
EncryptForgettingCounter(key, plaintext, counter) ==
    [ciphertext |-> ZipXor(plaintext,
                           DeriveKeystream(key, DeriveNonce(key, counter),
                                           Len(plaintext))),
     counter    |-> 0]

\* EncryptedNote::encrypt, counter being the value drawn from the rng
Encrypt(key, plaintext, counter) ==
    LET nonce == DeriveNonce(key, counter)
        keystream == DeriveKeystream(key, nonce, Len(plaintext))
    IN  [ciphertext |-> ZipXor(plaintext, keystream), counter |-> counter]

\* decrypt that also XORs the previous ciphertext byte into each byte
DecryptChained(note, key) ==
    LET nonce == DeriveNonce(key, note.counter)
        keystream == DeriveKeystream(key, nonce, Len(note.ciphertext))
        c == note.ciphertext
    IN  [result |-> Ok,
         value  |-> [i \in 1..Len(c) |->
                       IF i = 1 THEN ByteXor(c[i], keystream[i])
                       ELSE ByteXor(ByteXor(c[i], keystream[i]), c[i - 1])]]

\* EncryptedNote::decrypt
Decrypt(note, key) ==
    LET nonce == DeriveNonce(key, note.counter)
        keystream == DeriveKeystream(key, nonce, Len(note.ciphertext))
    IN  [result |-> Ok, value |-> ZipXor(note.ciphertext, keystream)]

\* EncryptedNote::to_bytes
EncToBytes(note) ==
    LET le == ToLeBytes(note.counter, CounterBytes)
    IN  [i \in 1..CounterBytes |-> Byte(le[i])] \o note.ciphertext

NoEncryptedNote == [ciphertext |-> <<>>, counter |-> 0]

\* EncryptedNote::from_bytes
EncFromBytes(bytes) ==
    IF Len(bytes) < CounterBytes
    THEN [result |-> Err("DecryptionError", "Encrypted note too short"),
          value  |-> NoEncryptedNote]
    ELSE [result |-> Ok,
          value  |-> [ciphertext |-> SubSeq(bytes, CounterBytes + 1, Len(bytes)),
                      counter |-> FromLeBytes([i \in 1..CounterBytes |-> bytes[i].c])]]

\* number of whole keystream blocks the longest plaintext spans
MaxBlocks == 2

Keys == {Raw(1), Raw(2)}
\* values the rng may return for the counter
Counters == {0, 1, 258, 2147483647}
\* lengths around the block size
PlainLens == {0, 1, WordBytes - 1, WordBytes, WordBytes + 1,
              MaxBlocks * WordBytes + 1}
\* a byte string of the given length
Plain(len, seed) == [i \in 1..len |-> Byte((seed + 7 * i) % 256)]
Plaintexts == {Plain(len, seed) : len \in PlainLens, seed \in {0, 200}}
\* buffers handed to from_bytes: too short, or a counter and any tail
WireBuffers ==
    {Plain(len, seed) : len \in {0, 1, CounterBytes - 1}, seed \in {0, 200}}
    \cup {[i \in 1..CounterBytes |-> Byte(ToLeBytes(c, CounterBytes)[i])] \o t :
            c \in Counters, t \in Plaintexts}

CipherInputs ==
    [kind : {"plain"}, key : Keys, counter : Counters,
     plaintext : Plaintexts, wire : {<<>>}]
    \cup [kind : {"wire"}, key : {Raw(1)}, counter : {0},
          plaintext : {<<>>}, wire : WireBuffers]

NoPlain == [result |-> NoResult, value |-> <<>>]
NoParsed == [result |-> NoResult, value |-> NoEncryptedNote]

\* EncryptedNote::encrypt(&key, plaintext)
EncryptCall ==
    /\ fn = ""
    /\ args.kind = "plain"
    /\ fn' = "encrypt"
    /\ out' = [enc    |-> Encrypt(args.key, args.plaintext, args.counter),
               note   |-> Encrypt(args.key, args.plaintext, args.counter),
               bytes  |-> <<>>,
               parsed |-> NoParsed,
               plain  |-> NoPlain,
               dkey   |-> Raw(0)]
    /\ UNCHANGED stateVars

\* encrypted.to_bytes()
EncToBytesCall ==
    /\ fn = "encrypt"
    /\ fn' = "to_bytes"
    /\ out' = [out EXCEPT !.bytes = EncToBytes(out.note)]
    /\ UNCHANGED stateVars

\* EncryptedNote::from_bytes(&bytes) on serialized bytes
EncFromBytesCall ==
    /\ fn = "to_bytes"
    /\ fn' = "from_bytes"
    /\ out' = [out EXCEPT !.parsed = EncFromBytes(out.bytes),
                          !.note = EncFromBytes(out.bytes).value]
    /\ UNCHANGED stateVars

\* EncryptedNote::from_bytes(&bytes) on a buffer from elsewhere
EncFromWireCall ==
    /\ fn = ""
    /\ args.kind = "wire"
    /\ fn' = "from_bytes"
    /\ out' = [enc    |-> NoEncryptedNote,
               note   |-> EncFromBytes(args.wire).value,
               bytes  |-> args.wire,
               parsed |-> EncFromBytes(args.wire),
               plain  |-> NoPlain,
               dkey   |-> Raw(0)]
    /\ UNCHANGED stateVars

\* note.decrypt(&key) with any key
DecryptCall ==
    /\ \/ fn = "encrypt"
       \/ fn = "from_bytes" /\ out.parsed.result = Ok
    /\ \E key \in Keys :
          /\ fn' = "decrypt"
          /\ out' = [out EXCEPT !.plain = Decrypt(out.note, key), !.dkey = key]
    /\ UNCHANGED stateVars

NextCipher ==
    \/ EncryptCall
    \/ EncToBytesCall
    \/ EncFromBytesCall
    \/ EncFromWireCall
    \/ DecryptCall

SpecCipher == InitPure(CipherInputs) /\ [][NextCipher]_vars

\* C15: decrypting what encrypt produced, with the key it was encrypted
\* under, returns Ok with the plaintext, directly or after to_bytes and
\* from_bytes; the ciphertext is as long as the plaintext and from_bytes
\* returns the note that was serialized
CipherRoundTrip ==
    /\ (fn \in {"encrypt", "to_bytes", "from_bytes", "decrypt"}
        /\ args.kind = "plain")
          => /\ Len(out.enc.ciphertext) = Len(args.plaintext)
             /\ Len(out.note.ciphertext) = Len(args.plaintext)
    /\ (fn = "from_bytes" /\ args.kind = "plain")
          => /\ out.parsed.result = Ok
             /\ out.parsed.value = out.enc
    /\ (fn = "decrypt" /\ args.kind = "plain" /\ out.dkey = args.key)
          => /\ out.plain.result = Ok
             /\ out.plain.value = args.plaintext

\* a plaintext one byte longer than a block, encrypted with a non-zero
\* counter, serialized, parsed and decrypted
CipherRoundTripWitness ==
    /\ fn = "decrypt"
    /\ args.kind = "plain"
    /\ out.dkey = args.key
    /\ args.counter # 0
    /\ Len(args.plaintext) = WordBytes + 1
    /\ out.parsed.result = Ok
    /\ out.plain.value = args.plaintext
    /\ out.enc.ciphertext # args.plaintext

\* C16: decrypt returns Ok with as many bytes as the ciphertext has, for a
\* note built by encrypt or parsed from any buffer, and for any key
DecryptNeverFails ==
    fn = "decrypt" =>
        /\ out.plain.result = Ok
        /\ Len(out.plain.value) = Len(out.note.ciphertext)

\* a note longer than a block decrypted under another key than the one it
\* was encrypted under: Ok, and not the plaintext
DecryptNeverFailsWitness ==
    /\ fn = "decrypt"
    /\ args.kind = "plain"
    /\ Len(out.note.ciphertext) > WordBytes
    /\ out.dkey # args.key
    /\ out.plain.result = Ok
    /\ out.plain.value # args.plaintext

-----------------------------------------------------------------------------
(* ExitNote and ExitTerms on the wire (exit_note.rs): SpecNote             *)
(*                                                                         *)
(* The deserializers index single bytes, so here a byte string is a        *)
(* sequence of numbers 0..255.  Raw(n) is the array [n; 32]; any other     *)
(* array is <<"arr", b>> with b its 32 bytes.                              *)

\* the bytes of one chunk
ChunkBytes(c) ==
    CASE c[1] = "raw" -> [i \in 1..WordBytes |-> c[2]]
      [] c[1] = "arr" -> c[2]
      [] c[1] = "u8"  -> <<c[2]>>
      [] c[1] = "u16" -> ToLeBytes(c[2], 2)
      [] c[1] = "u64" -> ToLeBytes(c[2], 8)

\* the bytes of a byte string given as chunks
RECURSIVE Flatten(_)
Flatten(chunks) ==
    IF chunks = <<>> THEN <<>>
    ELSE ChunkBytes(Head(chunks)) \o Flatten(Tail(chunks))

\* the [u8; 32] holding 32 given bytes
Array(b) ==
    IF \A i \in 1..Len(b) : b[i] = b[1] THEN Raw(b[1]) ELSE <<"arr", b>>

\* smallest serialized ExitNote header, up to and including terms_len
NoteHeaderSize == 114
\* bytes of serialized Delayed terms
DelayedSize == 9
\* bytes of serialized Custom terms
CustomSize == 5

InvalidExitNote(m) == Err("InvalidExitNote", m)
NoTerms == <<"None">>

\* from_bytes that reads an unknown tag as Standard
TermsFromBytesUnknownAsStandard(bytes) ==
    IF bytes = <<>>
    THEN [result |-> InvalidExitNote("Empty terms data"), value |-> NoTerms]
    ELSE CASE bytes[1] = 0 -> [result |-> Ok, value |-> <<"Immediate">>]
           [] bytes[1] = 2 ->
                IF Len(bytes) < DelayedSize
                THEN [result |-> InvalidExitNote("Delayed terms missing blocks"),
                      value  |-> NoTerms]
                ELSE [result |-> Ok,
                      value  |-> <<"Delayed", FromLeBytes(SubSeq(bytes, 2, 9))>>]
           [] bytes[1] = 3 ->
                IF Len(bytes) < CustomSize
                THEN [result |-> InvalidExitNote("Custom terms missing parameters"),
                      value  |-> NoTerms]
                ELSE [result |-> Ok,
                      value  |-> <<"Custom", FromLeBytes(SubSeq(bytes, 2, 3)),
                                   FromLeBytes(SubSeq(bytes, 4, 5))>>]
           [] OTHER -> [result |-> Ok, value |-> <<"Standard">>]

\* ExitTerms::from_bytes
TermsFromBytes(bytes) ==
    IF bytes = <<>>
    THEN [result |-> InvalidExitNote("Empty terms data"), value |-> NoTerms]
    ELSE CASE bytes[1] = 0 -> [result |-> Ok, value |-> <<"Immediate">>]
           [] bytes[1] = 1 -> [result |-> Ok, value |-> <<"Standard">>]
           [] bytes[1] = 2 ->
                IF Len(bytes) < DelayedSize
                THEN [result |-> InvalidExitNote("Delayed terms missing blocks"),
                      value  |-> NoTerms]
                ELSE [result |-> Ok,
                      value  |-> <<"Delayed", FromLeBytes(SubSeq(bytes, 2, 9))>>]
           [] bytes[1] = 3 ->
                IF Len(bytes) < CustomSize
                THEN [result |-> InvalidExitNote("Custom terms missing parameters"),
                      value  |-> NoTerms]
                ELSE [result |-> Ok,
                      value  |-> <<"Custom", FromLeBytes(SubSeq(bytes, 2, 3)),
                                   FromLeBytes(SubSeq(bytes, 4, 5))>>]
           [] OTHER -> [result |-> InvalidExitNote("Unknown terms type: "
                                                   \o ToString(bytes[1])),
                        value  |-> NoTerms]

NoNote ==
    [note_id |-> ZERO32, amount |-> 0, owner |-> ZERO32, terms |-> NoTerms,
     created_at |-> 0, blinding_factor |-> ZERO32]

\* from_bytes that refuses bytes after the declared terms
NoteFromBytesExact(bytes) ==
    IF Len(bytes) < NoteHeaderSize
    THEN [result |-> InvalidExitNote("Exit note too short: " \o ToString(Len(bytes))
                                     \o " bytes"), value |-> NoNote]
    ELSE LET terms_len == FromLeBytes(SubSeq(bytes, 113, 114))
         IN  IF Len(bytes) # NoteHeaderSize + terms_len
             THEN [result |-> InvalidExitNote("Exit note truncated"),
                   value  |-> NoNote]
             ELSE LET terms == TermsFromBytes(
                          SubSeq(bytes, NoteHeaderSize + 1, NoteHeaderSize + terms_len))
                  IN  IF terms.result # Ok
                      THEN [result |-> terms.result, value |-> NoNote]
                      ELSE [result |-> Ok,
                            value  |-> [note_id |-> Array(SubSeq(bytes, 1, 32)),
                                        amount |-> FromLeBytes(SubSeq(bytes, 33, 40)),
                                        owner |-> Array(SubSeq(bytes, 41, 72)),
                                        terms |-> terms.value,
                                        created_at |-> FromLeBytes(SubSeq(bytes, 73, 80)),
                                        blinding_factor |-> Array(SubSeq(bytes, 81, 112))]]

\* ExitNote::from_bytes
NoteFromBytes(bytes) ==
    IF Len(bytes) < NoteHeaderSize
    THEN [result |-> InvalidExitNote("Exit note too short: " \o ToString(Len(bytes))
                                     \o " bytes"), value |-> NoNote]
    ELSE LET terms_len == FromLeBytes(SubSeq(bytes, 113, 114))
         IN  IF Len(bytes) < NoteHeaderSize + terms_len
             THEN [result |-> InvalidExitNote("Exit note truncated"),
                   value  |-> NoNote]
             ELSE LET terms == TermsFromBytes(
                          SubSeq(bytes, NoteHeaderSize + 1, NoteHeaderSize + terms_len))
                  IN  IF terms.result # Ok
                      THEN [result |-> terms.result, value |-> NoNote]
                      ELSE [result |-> Ok,
                            value  |-> [note_id |-> Array(SubSeq(bytes, 1, 32)),
                                        amount |-> FromLeBytes(SubSeq(bytes, 33, 40)),
                                        owner |-> Array(SubSeq(bytes, 41, 72)),
                                        terms |-> terms.value,
                                        created_at |-> FromLeBytes(SubSeq(bytes, 73, 80)),
                                        blinding_factor |-> Array(SubSeq(bytes, 81, 112))]]

\* the four variants of ExitTerms with small, mixed and largest parameters
AllTerms ==
    {<<"Immediate">>, <<"Standard">>,
     <<"Delayed", 0>>, <<"Delayed", 100>>, <<"Delayed", 2147483647>>,
     <<"Custom", 0, 0>>, <<"Custom", 50, 100>>, <<"Custom", 65535, 256>>}

\* notes with every variant of terms
WireNotes ==
    [note_id : {Raw(1), <<"arr", [i \in 1..WordBytes |-> i]>>},
     amount : {0, 1000, 2147483647},
     owner : {Raw(42)},
     terms : AllTerms,
     created_at : {0, 1700000000},
     blinding_factor : {Raw(3)}]

\* the 112 bytes before terms_len of a serialized note
NoteHeader == SubSeq(Flatten(NoteToBytes(FirstNote)), 1, 112)

\* terms tails: a tag, valid or not, and a payload of any length (its
\* numbers stay below 2^24)
TermsTails ==
    {<<>>} \cup {<<tag>> \o [i \in 1..n |-> IF i <= 3 THEN i ELSE 0] :
                    tag \in {0, 1, 2, 3, 4, 255}, n \in {0, 1, 3, 4, 7, 8, 9}}

\* buffers handed to ExitNote::from_bytes: cut inside the header, or a
\* header, any declared terms_len and any tail
NoteBuffers ==
    {SubSeq(NoteHeader, 1, n) : n \in {0, 1, 112}}
    \cup {NoteHeader \o <<0>>}
    \cup {NoteHeader \o ToLeBytes(terms_len, 2) \o tail :
            terms_len \in {0, 1, 2, 4, 5, 8, 9, 10, 300}, tail \in TermsTails}

NoteInputs ==
    [kind : {"note"}, note : WireNotes, bytes : {<<>>}]
    \cup [kind : {"buffer"}, note : {NoNote}, bytes : NoteBuffers]

NoNoteParsed == [result |-> NoResult, value |-> NoNote]
NoTermsParsed == [result |-> NoResult, value |-> NoTerms]

\* note.to_bytes() and note.terms().to_bytes()
NoteToBytesCall ==
    /\ fn = ""
    /\ args.kind = "note"
    /\ fn' = "to_bytes"
    /\ out' = [bytes   |-> Flatten(NoteToBytes(args.note)),
               tbytes  |-> Flatten(TermsToBytes(args.note.terms)),
               parsed  |-> NoNoteParsed,
               tparsed |-> NoTermsParsed]
    /\ UNCHANGED stateVars

\* ExitNote::from_bytes and ExitTerms::from_bytes on what to_bytes returned
NoteFromBytesCall ==
    /\ fn = "to_bytes"
    /\ fn' = "from_bytes"
    /\ out' = [out EXCEPT !.parsed = NoteFromBytes(out.bytes),
                          !.tparsed = TermsFromBytes(out.tbytes)]
    /\ UNCHANGED stateVars

\* ExitNote::from_bytes on a buffer from elsewhere
NoteFromBufferCall ==
    /\ fn = ""
    /\ args.kind = "buffer"
    /\ fn' = "from_bytes"
    /\ out' = [bytes   |-> args.bytes,
               tbytes  |-> <<>>,
               parsed  |-> NoteFromBytes(args.bytes),
               tparsed |-> NoTermsParsed]
    /\ UNCHANGED stateVars

NextNote ==
    \/ NoteToBytesCall
    \/ NoteFromBytesCall
    \/ NoteFromBufferCall

SpecNote == InitPure(NoteInputs) /\ [][NextNote]_vars

\* C17: from_bytes of a serialized note returns Ok with a note equal in all
\* six fields and with the same commitment; from_bytes of serialized terms
\* returns the terms
NoteRoundTrip ==
    (fn = "from_bytes" /\ args.kind = "note") =>
        /\ out.parsed.result = Ok
        /\ \A f \in {"note_id", "amount", "owner", "terms", "created_at",
                     "blinding_factor"} : out.parsed.value[f] = args.note[f]
        /\ NoteCommitment(out.parsed.value) = NoteCommitment(args.note)
        /\ out.tparsed.result = Ok
        /\ out.tparsed.value = args.note.terms

\* a note with Custom terms, a non-zero timestamp and an id of 32 different
\* bytes, serialized and parsed back
NoteRoundTripWitness ==
    /\ fn = "from_bytes"
    /\ args.kind = "note"
    /\ args.note.terms = <<"Custom", 50, 100>>
    /\ args.note.created_at # 0
    /\ args.note.amount = 1000
    /\ args.note.note_id # Raw(1)
    /\ out.parsed.value = args.note
    /\ Len(out.bytes) = NoteHeaderSize + CustomSize

\* the inputs ExitNote::from_bytes rejects
NoteRejected(b) ==
    \/ Len(b) < 114
    \/ LET terms_len == b[113] + 256 * b[114]
       IN  \/ terms_len > Len(b) - 114
           \/ terms_len = 0
           \/ b[115] \notin 0..3
           \/ b[115] = 2 /\ terms_len < 9
           \/ b[115] = 3 /\ terms_len < 5

\* C19: ExitNote::from_bytes returns InvalidExitNote on a buffer shorter than
\* 114 bytes, with terms_len beyond the end, or with a terms tail that is
\* empty, has a tag outside 0..3 or is shorter than 9 bytes for tag 2 or 5
\* for tag 3, and Ok on every other buffer
NoteFromBytesErrors ==
    fn = "from_bytes" =>
        out.parsed.result.kind =
            IF NoteRejected(out.bytes) THEN "InvalidExitNote" ELSE "Ok"

\* a Delayed tail declared one byte short is rejected
NoteFromBytesErrorsWitness ==
    /\ fn = "from_bytes"
    /\ args.kind = "buffer"
    /\ Len(out.bytes) >= 114 + 9
    /\ out.bytes[113] = 8
    /\ out.bytes[115] = 2
    /\ out.parsed.result.kind = "InvalidExitNote"

-----------------------------------------------------------------------------
(* ExitProof on the wire (proof.rs): SpecWire *)

\* most 32-byte words in a buffer handed to ExitProof::from_bytes
MaxWords == 6

\* generated proofs, one of them with another response, and the zero proof
WireProofs ==
    GeneratedProofs
    \cup {[p EXCEPT !.response = Raw(7)] : p \in GeneratedProofs}
    \cup {NoProof}

\* buffers of whole words, with or without one more byte
WireWords(k, w) ==
    [i \in 1..k |-> IF i = 2 THEN DomainHash("chain_1") ELSE Raw((w + i) % 3)]
ProofBuffers ==
    {WireWords(k, w) \o t : k \in 0..MaxWords, w \in 0..2, t \in {<<>>, <<U8(1)>>}}

WireInputs ==
    [kind : {"proof"}, proof : WireProofs, tag : DomainTags, marked : BOOLEAN,
     bytes : {<<>>}]
    \cup [kind : {"buffer"}, proof : {NoProof}, tag : {"chain_1"},
          marked : {FALSE}, bytes : ProofBuffers]

NoProofParsed == [result |-> NoResult, value |-> NoProof]

\* proof.to_bytes()
ProofToBytesCall ==
    /\ fn = ""
    /\ args.kind = "proof"
    /\ fn' = "to_bytes"
    /\ out' = [bytes  |-> ProofToBytes(args.proof),
               parsed |-> NoProofParsed,
               first  |-> NoResult,
               second |-> NoResult]
    /\ UNCHANGED stateVars

\* ExitProof::from_bytes on what to_bytes returned
ProofFromBytesCall ==
    /\ fn = "to_bytes"
    /\ fn' = "from_bytes"
    /\ out' = [out EXCEPT !.parsed = ProofFromBytes(out.bytes)]
    /\ UNCHANGED stateVars

\* ExitProof::from_bytes on a buffer from elsewhere
ProofFromBufferCall ==
    /\ fn = ""
    /\ args.kind = "buffer"
    /\ fn' = "from_bytes"
    /\ out' = [bytes  |-> args.bytes,
               parsed |-> ProofFromBytes(args.bytes),
               first  |-> NoResult,
               second |-> NoResult]
    /\ UNCHANGED stateVars

\* verify(&proof) and verify(&recovered) on one verifier, whose used set
\* holds the proof's nullifier or nothing
VerifyBothCall ==
    /\ fn = "from_bytes"
    /\ args.kind = "proof"
    /\ out.parsed.result = Ok
    /\ fn' = "verify"
    /\ LET dom  == VerifierNew(args.tag)
           used == IF args.marked THEN {args.proof.nullifier} ELSE {}
       IN  out' = [out EXCEPT !.first = Verify(dom, used, args.proof),
                              !.second = Verify(dom, used, out.parsed.value)]
    /\ UNCHANGED stateVars

NextWire ==
    \/ ProofToBytesCall
    \/ ProofFromBytesCall
    \/ ProofFromBufferCall
    \/ VerifyBothCall

SpecWire == InitPure(WireInputs) /\ [][NextWire]_vars

\* C18: to_bytes yields 160 bytes, commitment, announcement, response,
\* verification_tag, nullifier in this order; from_bytes returns Ok on 160
\* bytes and ProofVerificationFailed on any other length; from_bytes of
\* to_bytes gives back the five fields, and verify answers the same for both
ProofWireFormat ==
    /\ (fn \in {"to_bytes", "from_bytes", "verify"} /\ args.kind = "proof")
          => /\ BytesLen(out.bytes) = 160
             /\ out.bytes = <<args.proof.commitment, args.proof.announcement,
                              args.proof.response, args.proof.verification_tag,
                              args.proof.nullifier>>
    /\ fn \in {"from_bytes", "verify"}
          => out.parsed.result.kind =
                IF BytesLen(out.bytes) = 160 THEN "Ok" ELSE "ProofVerificationFailed"
    /\ (fn \in {"from_bytes", "verify"} /\ args.kind = "proof")
          => \A f \in ProofFields : out.parsed.value[f] = args.proof[f]
    /\ fn = "verify" => out.first = out.second

\* a generated proof serialized, parsed and accepted both times
ProofWireFormatWitness ==
    /\ fn = "verify"
    /\ args.proof \in GeneratedProofs
    /\ out.parsed.value = args.proof
    /\ out.first = Ok
    /\ out.second = Ok

-----------------------------------------------------------------------------
(* Commitment (commitment.rs): SpecCommit *)

\* most bytes of a committed value
MaxValueLen == 3

\* byte strings of up to MaxValueLen bytes
CommitValues ==
    UNION {[1..n -> {U8(0), U8(1)}] : n \in 0..MaxValueLen}

Blindings == {Raw(0), Raw(1), Raw(42)}

CommitInputs ==
    [value : CommitValues, blinding : Blindings,
     value2 : CommitValues, blinding2 : Blindings]

\* Commitment::new(value, blinding).verify(value2, blinding2)
CommitVerifyCall ==
    /\ fn = ""
    /\ fn' = "verify"
    /\ out' = [hash |-> CommitmentNew(args.value, args.blinding),
               ok   |-> CommitmentVerify(CommitmentNew(args.value, args.blinding),
                                         args.value2, args.blinding2)]
    /\ UNCHANGED stateVars

NextCommit == CommitVerifyCall

SpecCommit == InitPure(CommitInputs) /\ [][NextCommit]_vars

\* C20: Commitment::new(v, b).verify(v2, b2) is true exactly when v2 = v and
\* b2 = b
CommitmentBinding ==
    fn = "verify" =>
        (out.ok <=> (args.value2 = args.value /\ args.blinding2 = args.blinding))

\* the same value under another blinding is refused
CommitmentBindingWitness ==
    /\ fn = "verify"
    /\ args.value # <<>>
    /\ args.value2 = args.value
    /\ args.blinding2 # args.blinding
    /\ ~out.ok

-----------------------------------------------------------------------------
(* The order of the checks in ProofVerifier::verify: SpecOrder *)

\* the fields verify_basic_structure looks at
CheckedFields == {"response", "announcement", "nullifier", "verification_tag"}

\* p with the fields in zeroed set to [0u8; 32]
ZeroFields(p, zeroed) ==
    [f \in ProofFields |-> IF f \in zeroed THEN ZERO32 ELSE p[f]]

\* p with its verification tag kept, recomputed from the other fields as
\* anyone can, or replaced by another array
Retag(p, tag, how) ==
    CASE how = "kept"       -> p
      [] how = "recomputed" ->
            [p EXCEPT !.verification_tag =
                PublicTag(tag, p.commitment, p.announcement, p.response, p.nullifier)]
      [] how = "other"      -> [p EXCEPT !.verification_tag = Raw(7)]

\* generated proofs with any fields zeroed and any of the three tags
OrderProofs ==
    {Retag(ZeroFields(GenerateProof(GeneratorNew(t), n, Raw(1), Raw(1)), z), t, how) :
        t \in DomainTags, n \in Notes, z \in SUBSET CheckedFields,
        how \in {"kept", "recomputed", "other"}}

OrderInputs == [proof : OrderProofs, tag : DomainTags, marked : BOOLEAN]

\* verify(&proof) on a verifier of domain tag whose used set holds the
\* proof's nullifier or nothing
VerifyOrderCall ==
    /\ fn = ""
    /\ fn' = "verify"
    /\ out' = Verify(VerifierNew(args.tag),
                     IF args.marked THEN {args.proof.nullifier} ELSE {},
                     args.proof)
    /\ UNCHANGED stateVars

NextOrder == VerifyOrderCall

SpecOrder == InitPure(OrderInputs) /\ [][NextOrder]_vars

ZeroValueMessages ==
    {"Invalid response: zero value", "Invalid announcement: zero value",
     "Invalid nullifier: zero value", "Invalid verification tag: zero value"}

\* C21: a proof whose nullifier is in the used set is refused with "Nullifier
\* already used" whatever its other fields are, and a proof with a zero field
\* whose nullifier is not used is refused by a zero-value check, never by the
\* tag comparison
UsedCheckedFirst ==
    fn = "verify" =>
        /\ args.marked => out = ProofVerificationFailed("Nullifier already used")
        /\ (~args.marked /\ \E f \in CheckedFields : args.proof[f] = ZERO32)
              => /\ out.kind = "ProofVerificationFailed"
                 /\ out.msg \in ZeroValueMessages

\* a used nullifier on a proof with a zero response and a tag that does not
\* match
UsedCheckedFirstWitness ==
    /\ fn = "verify"
    /\ args.marked
    /\ args.proof.response = ZERO32
    /\ args.proof.verification_tag = Raw(7)
    /\ VerifyBasicStructure(args.proof) # Ok
    /\ VerifyProofCryptography(VerifierNew(args.tag), args.proof) # Ok
    /\ out.msg = "Nullifier already used"

-----------------------------------------------------------------------------
(* Two verifiers of one domain, each with its own used set: SpecTwo *)

\* the process holding verifier v restarts: ProofVerifier::new(tag) again
Restart(v) ==
    /\ used_nullifiers[v] # {}
    /\ domain' = [domain EXCEPT ![v] = VerifierNew("chain_1")]
    /\ used_nullifiers' = [used_nullifiers EXCEPT ![v] = {}]
    /\ lastCall' = [op |-> "new", v |-> v, result |-> Ok, answer |-> FALSE]
    /\ UNCHANGED <<proof, source, historyVars, clientVars, callVars>>

NextTwo ==
    \/ \E s \in Secrets : Generate("chain_1", FirstNote, s, Raw(1))
    \/ \E v \in Verifiers : VerifyCall(v) /\ UNCHANGED historyVars
    \/ \E v \in Verifiers : MarkCall(v, proof.nullifier) /\ UNCHANGED historyVars
    \/ \E v \in Verifiers : Restart(v)

SpecTwo == InitWith([v \in Verifiers |-> "chain_1"]) /\ [][NextTwo]_vars

\* C22: mark_nullifier_used on one verifier leaves the used set of every
\* other verifier unchanged, and a verifier of the proof's domain whose own
\* set does not hold the nullifier of a generated proof accepts it, whatever
\* the other verifier's set holds
PerVerifierUsedSets ==
    [][/\ lastCall'.op = "mark_nullifier_used"
          => \A w \in Verifiers \ {lastCall'.v} :
                used_nullifiers'[w] = used_nullifiers[w]
       /\ (/\ lastCall'.op = "verify"
           /\ source.kind = "generate"
           /\ proof.nullifier \notin used_nullifiers[lastCall'.v])
          => lastCall'.result = Ok]_vars

\* a proof whose nullifier is marked on A is accepted by B
PerVerifierUsedSetsWitness ==
    /\ lastCall.op = "verify"
    /\ lastCall.v = "B"
    /\ lastCall.result = Ok
    /\ source.kind = "generate"
    /\ proof.nullifier \in used_nullifiers["A"]
    /\ proof.nullifier \notin used_nullifiers["B"]

-----------------------------------------------------------------------------
(* Serialized notes with bytes the deserializers never read: SpecSurplus *)

\* most surplus bytes inside the declared terms, and after them
MaxSurplus == 2

\* one variant of each kind
SurplusTerms ==
    {<<"Immediate">>, <<"Standard">>, <<"Delayed", 100>>, <<"Custom", 50, 100>>}

\* n bytes of value fill
Fill(n, fill) == [i \in 1..n |-> fill]

\* serialized terms followed by surplus bytes
TermsBuffer(b) == Flatten(TermsToBytes(b.terms)) \o Fill(b.inside, b.fill)

\* a serialized note whose terms_len covers b.inside surplus bytes and which
\* carries b.after more bytes behind the declared terms
NoteBuffer(b) ==
    NoteHeader \o ToLeBytes(Len(TermsBuffer(b)), 2) \o TermsBuffer(b)
    \o Fill(b.after, b.fill)

SurplusBuffers ==
    [terms : SurplusTerms, inside : 0..MaxSurplus, after : 0..MaxSurplus,
     fill : {0, 9}]

SurplusInputs == [{1, 2} -> SurplusBuffers]

\* ExitNote::from_bytes on two buffers, ExitTerms::from_bytes on their terms,
\* and to_bytes of the first note parsed
ParseSurplusCall ==
    /\ fn = ""
    /\ fn' = "from_bytes"
    /\ out' = [parsed  |-> [i \in {1, 2} |-> NoteFromBytes(NoteBuffer(args[i]))],
               tparsed |-> [i \in {1, 2} |-> TermsFromBytes(TermsBuffer(args[i]))],
               again   |-> IF NoteFromBytes(NoteBuffer(args[1])).result = Ok
                           THEN Flatten(NoteToBytes(
                                    NoteFromBytes(NoteBuffer(args[1])).value))
                           ELSE <<>>]
    /\ UNCHANGED stateVars

NextSurplus == ParseSurplusCall

SpecSurplus == InitPure(SurplusInputs) /\ [][NextSurplus]_vars

\* C23: surplus bytes inside the declared terms and after them are ignored by
\* ExitTerms::from_bytes and ExitNote::from_bytes; two buffers with the same
\* header, tag and payload parse to the same note; and serializing the parsed
\* note gives the buffer back exactly when it carries no surplus byte
SurplusBytesIgnored ==
    fn = "from_bytes" =>
        /\ \A i \in {1, 2} :
              /\ out.tparsed[i] = [result |-> Ok, value |-> args[i].terms]
              /\ out.parsed[i] =
                    [result |-> Ok,
                     value  |-> [FirstNote EXCEPT !.terms = args[i].terms]]
        /\ args[1].terms = args[2].terms => out.parsed[1] = out.parsed[2]
        /\ (out.again = NoteBuffer(args[1]))
              <=> (args[1].inside = 0 /\ args[1].after = 0)

\* Delayed terms with surplus bytes inside and after parse to the note the
\* canonical buffer parses to, and do not serialize back to the buffer
SurplusBytesIgnoredWitness ==
    /\ fn = "from_bytes"
    /\ args[1].terms = <<"Delayed", 100>>
    /\ args[1].inside > 0
    /\ args[1].after > 0
    /\ args[1].fill # 0
    /\ args[2].terms = args[1].terms
    /\ args[2].inside = 0
    /\ args[2].after = 0
    /\ out.parsed[1].result = Ok
    /\ out.parsed[1] = out.parsed[2]
    /\ out.again = NoteBuffer(args[2])
    /\ out.again # NoteBuffer(args[1])

-----------------------------------------------------------------------------
(* Two encryptions that may draw the same counter: SpecReuse *)

ReuseInputs ==
    [key1 : Keys, key2 : Keys, counter1 : {0, 258}, counter2 : {0, 258},
     plaintext1 : Plaintexts, plaintext2 : Plaintexts]

\* EncryptedNote::encrypt twice; the rng returned counter1, then counter2
EncryptTwiceCall ==
    /\ fn = ""
    /\ fn' = "encrypt"
    /\ out' = [first  |-> Encrypt(args.key1, args.plaintext1, args.counter1),
               second |-> Encrypt(args.key2, args.plaintext2, args.counter2),
               keystream1 |-> DeriveKeystream(args.key1,
                                  DeriveNonce(args.key1, args.counter1),
                                  Len(args.plaintext1)),
               keystream2 |-> DeriveKeystream(args.key2,
                                  DeriveNonce(args.key2, args.counter2),
                                  Len(args.plaintext2))]
    /\ UNCHANGED stateVars

NextReuse == EncryptTwiceCall

SpecReuse == InitPure(ReuseInputs) /\ [][NextReuse]_vars

\* C24: under one key and one counter the two keystreams agree on every index
\* below both lengths, whatever the plaintexts and their lengths are, and
\* there the XOR of the two ciphertexts is the XOR of the two plaintexts
KeystreamReuse ==
    (fn = "encrypt" /\ args.key1 = args.key2 /\ args.counter1 = args.counter2) =>
        LET n == IF Len(args.plaintext1) < Len(args.plaintext2)
                 THEN Len(args.plaintext1) ELSE Len(args.plaintext2)
        IN  /\ Len(out.keystream1) = Len(args.plaintext1)
            /\ Len(out.keystream2) = Len(args.plaintext2)
            /\ SubSeq(out.keystream1, 1, n) = SubSeq(out.keystream2, 1, n)
            /\ \A i \in 1..n :
                  ByteXor(out.first.ciphertext[i], out.second.ciphertext[i])
                     = ByteXor(args.plaintext1[i], args.plaintext2[i])

\* two different plaintexts of different lengths, both longer than a block,
\* encrypted under one key and one counter
KeystreamReuseWitness ==
    /\ fn = "encrypt"
    /\ args.key1 = args.key2
    /\ args.counter1 = args.counter2
    /\ Len(args.plaintext1) = WordBytes + 1
    /\ Len(args.plaintext2) > WordBytes + 1
    /\ args.plaintext1[WordBytes + 1] # args.plaintext2[WordBytes + 1]
    /\ ByteXor(out.first.ciphertext[WordBytes + 1], out.second.ciphertext[WordBytes + 1])
          = ByteXor(args.plaintext1[WordBytes + 1], args.plaintext2[WordBytes + 1])
    /\ out.first.ciphertext[WordBytes + 1] # args.plaintext1[WordBytes + 1]

-----------------------------------------------------------------------------
(* A ciphertext changed on its way to decrypt: SpecMalleable *)

\* masks XOR-ed into a ciphertext byte
Masks == {1, 128, 255}

MalleableInputs ==
    {[key |-> k, counter |-> c, plaintext |-> p, index |-> i, mask |-> d] :
        k \in Keys, c \in {0, 258}, p \in Plaintexts \ {<<>>},
        i \in {1, WordBytes, WordBytes + 1}, d \in Masks}

\* EncryptedNote::encrypt(&key, plaintext)
EncryptForTransit ==
    /\ fn = ""
    /\ args.index <= Len(args.plaintext)
    /\ fn' = "encrypt"
    /\ out' = [note  |-> Encrypt(args.key, args.plaintext, args.counter),
               plain |-> NoPlain]
    /\ UNCHANGED stateVars

\* whoever carries to_bytes() of the note XORs mask into byte index of the
\* ciphertext; from_bytes then returns the note with that byte changed
FlipInTransit ==
    /\ fn = "encrypt"
    /\ LET bytes  == EncToBytes(out.note)
           at     == CounterBytes + args.index
           parsed == EncFromBytes([bytes EXCEPT
                         ![at] = ByteXor(bytes[at], Byte(args.mask))])
       IN  /\ parsed.result = Ok
           /\ out' = [out EXCEPT !.note = parsed.value]
    /\ fn' = "from_bytes"
    /\ UNCHANGED stateVars

\* note.decrypt(&key) on the changed note
DecryptFlipped ==
    /\ fn = "from_bytes"
    /\ fn' = "decrypt"
    /\ out' = [out EXCEPT !.plain = Decrypt(out.note, args.key)]
    /\ UNCHANGED stateVars

NextMalleable ==
    \/ EncryptForTransit
    \/ FlipInTransit
    \/ DecryptFlipped

SpecMalleable == InitPure(MalleableInputs) /\ [][NextMalleable]_vars

\* C25: after mask is XOR-ed into byte index of the ciphertext, decrypt with
\* the right key returns Ok with the plaintext changed by mask at that byte
\* and equal to the original plaintext at every other byte
CiphertextMalleable ==
    fn = "decrypt" =>
        /\ out.plain.result = Ok
        /\ Len(out.plain.value) = Len(args.plaintext)
        /\ \A j \in 1..Len(args.plaintext) :
              out.plain.value[j] =
                 IF j = args.index
                 THEN Byte(BitXor(args.plaintext[j].c, args.mask))
                 ELSE args.plaintext[j]

\* a byte of the second keystream block changed, and the byte before it
\* untouched
CiphertextMalleableWitness ==
    /\ fn = "decrypt"
    /\ args.index = WordBytes + 1
    /\ Len(args.plaintext) > WordBytes + 1
    /\ args.mask = 255
    /\ out.plain.result = Ok
    /\ out.plain.value[args.index] # args.plaintext[args.index]
    /\ out.plain.value[args.index - 1] = args.plaintext[args.index - 1]
    /\ out.plain.value[args.index + 1] = args.plaintext[args.index + 1]

====
